---- MODULE Spec2Model ----
(***************************************************************************)
(* The chat application of jsbaan/ai-app-from-scratch: the chat UI service *)
(* (chat-ui/app/main.py) and the persistence API (db-api/app/main.py,      *)
(* crud.py, models.py) over one relational store with the tables chats and *)
(* messages, and the external completion endpoint as an environment step.  *)
(*                                                                         *)
(* A request is a process: a slot of req holds the handler it runs, the    *)
(* handler's arguments and local variables, and its position pc.  Every    *)
(* statement that commits to or queries the database is one atomic step;   *)
(* steps of different requests interleave, as the requests of different    *)
(* worker threads and processes do on the shared database.                 *)
(***************************************************************************)
EXTENDS Integers, Sequences, FiniteSets, TLC

VARIABLES chats, messages, req, started, resolved

vars == <<chats, messages, req, started, resolved>>

(***************************************************************************)
(* Bounds of the model.                                                    *)
(***************************************************************************)
MaxChats == 2
MaxMessages == 4
MaxRequests == 3

\* The slots requests run in: two requests can be under way at a time.
Requests == {1, 2}
Usernames == {"alice"}
SessionIds == {"A", "B"}
Prompts == {"hello"}
Replies == {"reply"}

(***************************************************************************)
(* chat-ui settings (class Settings).                                      *)
(***************************************************************************)
settings ==
    [user_role |-> "user",
     assistant_role |-> "assistant",
     system_role |-> "system",
     system_message |-> "You are a helpful AI assistant.",
     opening_message |->
        "Hi, how can I help you? I might take about 30 seconds for lengthy answers!"]

\* Python's None: the result of a query without rows, an absent header value.
None == [none |-> TRUE]

\* request.headers.get("X-Session-ID") of a request that carries no such header.
NoHeader == ""

(***************************************************************************)
(* The store.  chats is the set of rows of table chats, messages the rows  *)
(* of table messages in the order a scan of the table returns them.  Row   *)
(* identifiers are uuid4 values, fresh and unique: the model numbers the   *)
(* chats in the order of their creation; a message's identifier takes part *)
(* in no query, and a message row is identified by its place in the table. *)
(***************************************************************************)
Chat(id, username, session_id) ==
    [id |-> id, username |-> username, session_id |-> session_id]

Message(message, owner_id) ==
    [content |-> message.content, role |-> message.role,
     session_id |-> message.session_id, owner_id |-> owner_id]

MessageCreate(role, content, session_id) ==
    [role |-> role, content |-> content, session_id |-> session_id]

\* The relationship Chat.messages: the rows of messages whose owner_id is the
\* chat's id.  The relationship states no order_by, so the rows come in the
\* order the table scan yields them.
MessagesOf(rows, chat_id) ==
    SelectSeq(rows, LAMBDA m : m.owner_id = chat_id)

ChatMessages(chat_id) == MessagesOf(messages, chat_id)

\* The schema Chat a chat row is serialised to: the row with its messages.
ChatSchemaOf(rows, c) ==
    [id |-> c.id, username |-> c.username, session_id |-> c.session_id,
     messages |-> MessagesOf(rows, c.id)]

ChatSchema(c) == ChatSchemaOf(messages, c)

\* Query.first(): one of the rows the query selects, None when it selects none.
\* The queries state no ORDER BY, so any selected row may be the first.
First(rows) == IF rows = {} THEN {None} ELSE rows

(***************************************************************************)
(* crud.py                                                                 *)
(***************************************************************************)
\* get_chat with the filter on the session left out.
get_chat_any_session(chat_id, session_id) ==
    First({c \in chats : c.id = chat_id})

get_chat(chat_id, session_id) ==
    First({c \in chats : c.id = chat_id /\ c.session_id = session_id})

\* get_chat_by_username with the filter on the session left out.
get_chat_by_username_any_session(username, session_id) ==
    First({c \in chats : c.username = username})

get_chat_by_username(username, session_id) ==
    First({c \in chats : c.username = username /\ c.session_id = session_id})

\* db.add and db.commit that write the new row over a stored row instead of
\* adding it.
AddMessage_overwriting(row) ==
    IF messages = <<>> THEN {<<row>>}
    ELSE {[messages EXCEPT ![p] = row] : p \in 1..Len(messages)}

\* The rows of messages after db.add(db_message); db.commit() of a new row.
\* The table is a heap without a sequence or timestamp column: the row goes
\* wherever the storage has room for it, at any place of the scan order.
AddMessage(row) ==
    {SubSeq(messages, 1, p - 1) \o <<row>> \o SubSeq(messages, p, Len(messages)) :
        p \in 1..(Len(messages) + 1)}

\* The foreign key messages.owner_id -> chats.id: the commit of a message whose
\* owner_id names no chat row fails.
OwnerExists(chat_id) == \E c \in chats : c.id = chat_id

NewChatId == Cardinality(chats) + 1

\* The chat identifiers a request can name: those of the chats, and one that
\* names no chat.
ChatIds == 1..(Cardinality(chats) + 1)

(***************************************************************************)
(* db-api main.py: the two GET handlers, as the set of responses a request *)
(* can get in the current state.                                           *)
(***************************************************************************)
Response(status, body) == [status |-> status, body |-> body]

Serialise(c) == IF c = None THEN None ELSE ChatSchema(c)

\* get_chat_by_id without the check of the header.
db_get_chat_by_id_unchecked(chat_id, header) ==
    {Response(200, Serialise(c)) : c \in get_chat(chat_id, header)}

db_get_chat_by_id(chat_id, header) ==
    IF header = NoHeader
    THEN {Response(400, None)}
    ELSE {Response(200, Serialise(c)) : c \in get_chat(chat_id, header)}

db_get_chat_by_username(username, header) ==
    IF header = NoHeader
    THEN {Response(400, None)}
    ELSE {Response(200, Serialise(c)) : c \in get_chat_by_username(username, header)}

(***************************************************************************)
(* Requests.                                                               *)
(***************************************************************************)
Idle ==
    [op |-> "none", pc |-> "idle", username |-> "", session_id |-> "",
     chat_id |-> 0, prompt |-> "", generation |-> "", body |-> <<>>,
     chat |-> None,
     response_status |-> 0, status |-> 0, result |-> None, written |-> <<>>]

Init ==
    /\ chats = {}
    /\ messages = <<>>
    /\ req = [r \in Requests |-> Idle]
    /\ started = 0
    /\ resolved = [u \in Usernames, s \in SessionIds |-> 0]

Set(r, fields) == req' = [req EXCEPT ![r] = fields]

\* The request is over: status and result are what its caller receives.
Done(r, status, result) ==
    [req[r] EXCEPT !.pc = "done", !.status = status, !.result = result]

\* A new request arrives and takes the first free slot: which slot a request
\* runs in means nothing.  started counts the requests received so far.
Start(r) ==
    /\ req[r].pc = "idle"
    /\ \A o \in Requests : o < r => req[o].pc # "idle"
    /\ started < MaxRequests
    /\ started' = started + 1

\* History of chat-ui's create_chat: resolved[u, s] is the chat identifier the
\* last finished call for username u under session s redirected to, 0 before
\* the first.  q is the request after the step.
Resolve(q) ==
    resolved' =
        IF q.op = "ui_create_chat" /\ q.pc = "done" /\ q.status = 302
        THEN [resolved EXCEPT ![q.username, q.session_id] = q.result.location]
        ELSE resolved

\* A response is delivered as soon as it is produced: no other step comes
\* between a request's last step and respond, which changes nothing but the slot.
Ready == \A r \in Requests : req[r].pc # "done"

(***************************************************************************)
(* Request bodies a client of the persistence API can send.                *)
(***************************************************************************)
MessageBodies ==
    {MessageCreate(settings.user_role, p, s) : p \in Prompts, s \in SessionIds}

\* ChatCreate.messages is [] unless the client states it; chat-ui states two.
ChatBodies ==
    {[username |-> u, session_id |-> s, messages |-> <<>>] :
        u \in Usernames, s \in SessionIds}

\* The two initial messages chat-ui sends with a new chat.
InitialMessages(session_id) ==
    <<MessageCreate(settings.system_role, settings.system_message, session_id),
      MessageCreate(settings.assistant_role, settings.opening_message, session_id)>>

(***************************************************************************)
(* crud.create_chat, entered from POST /chats of the persistence API,      *)
(* which chat-ui's create_chat calls in turn.  First step: the query for   *)
(* an existing chat of the username and session.                           *)
(***************************************************************************)
\* create_chat without the query for an existing chat.
create_chat_unchecked(r, op, username, session_id, body) ==
    /\ Set(r, [Idle EXCEPT !.op = op, !.username = username,
                           !.session_id = session_id, !.body = body,
                           !.pc = "add_chat"])
    /\ UNCHANGED <<chats, messages, resolved>>

create_chat_check(r, op, username, session_id, body) ==
    LET q == [Idle EXCEPT !.op = op, !.username = username,
                          !.session_id = session_id, !.body = body]
    IN  /\ \E db_chat \in get_chat_by_username(username, session_id) :
              IF db_chat # None
              THEN \* HTTPException(400): chat-ui goes on to fetch the chat
                   IF op = "ui_create_chat"
                   THEN Set(r, [q EXCEPT !.pc = "get_by_username",
                                         !.response_status = 400])
                   ELSE Set(r, [q EXCEPT !.pc = "done", !.status = 400])
              ELSE Set(r, [q EXCEPT !.pc = "add_chat"])
        /\ UNCHANGED <<chats, messages, resolved>>

\* chat-ui POST /chats (form: username; session cookie).
ui_create_chat(r) ==
    /\ Ready
    /\ Start(r)
    /\ \E username \in Usernames, session_id \in SessionIds :
          create_chat_check(r, "ui_create_chat", username, session_id,
                            InitialMessages(session_id))

\* db-api POST /chats with any request body.
db_create_chat(r) ==
    /\ Ready
    /\ Start(r)
    /\ \E chat \in ChatBodies :
          create_chat_check(r, "db_create_chat", chat.username, chat.session_id,
                            chat.messages)

\* return db_chat, once the loop over chat.messages is through: the response of
\* POST /chats, and what chat-ui does with it.  rows is the table messages then.
create_chat_return(q, rows) ==
    IF q.body # <<>>
    THEN q
    ELSE IF q.op = "ui_create_chat"
         THEN \* chat-ui redirects to the chat page of chat["id"]
              [q EXCEPT !.pc = "done", !.status = 302, !.response_status = 200,
                        !.result = [location |-> q.chat.id]]
         ELSE [q EXCEPT !.pc = "done", !.status = 200,
                        !.result = ChatSchemaOf(rows, q.chat)]

\* db.add(db_chat); db.commit(); db.refresh(db_chat)
create_chat_add(r) ==
    /\ Ready
    /\ req[r].pc = "add_chat"
    /\ Cardinality(chats) < MaxChats
    /\ LET db_chat == Chat(NewChatId, req[r].username, req[r].session_id)
       IN  /\ chats' = chats \cup {db_chat}
           /\ Set(r, create_chat_return(
                        [req[r] EXCEPT !.pc = "add_messages", !.chat = db_chat],
                        messages))
    /\ UNCHANGED <<messages, started>>
    /\ Resolve(req'[r])

\* crud.create_chat_message: db.add(db_message); db.commit()
crud_create_chat_message(chat_id, chat_message) ==
    /\ Len(messages) < MaxMessages
    /\ messages' \in AddMessage(Message(chat_message, chat_id))

\* One round of the loop over chat.messages.
create_chat_messages(r) ==
    /\ Ready
    /\ req[r].pc = "add_messages"
    /\ req[r].body # <<>>
    /\ crud_create_chat_message(req[r].chat.id, Head(req[r].body))
    /\ Set(r, create_chat_return(
                 [req[r] EXCEPT
                    !.body = Tail(@),
                    !.written = Append(@, Message(Head(req[r].body), req[r].chat.id))],
                 messages'))
    /\ UNCHANGED <<chats, started>>
    /\ Resolve(req'[r])

\* chat-ui create_chat after a 400: GET /chats/username/{username}.
ui_get_by_username(r) ==
    /\ Ready
    /\ req[r].pc = "get_by_username"
    /\ \E response \in db_get_chat_by_username(req[r].username, req[r].session_id) :
          IF response.body = None
          THEN \* chat["id"] of None raises: the request fails
               Set(r, Done(r, 500, None))
          ELSE Set(r, Done(r, 302, [location |-> response.body.id]))
    /\ UNCHANGED <<chats, messages, started>>
    /\ Resolve(req'[r])

(***************************************************************************)
(* db-api POST /chats/{chat_id}/message, as chat-ui and direct clients     *)
(* call it: no check of the chat or of the session, only the foreign key.  *)
(***************************************************************************)
db_create_chat_message(r) ==
    /\ Ready
    /\ Start(r)
    /\ \E chat_id \in ChatIds, message \in MessageBodies :
          LET q == [Idle EXCEPT !.op = "db_create_chat_message",
                                !.chat_id = chat_id,
                                !.session_id = message.session_id,
                                !.prompt = message.content]
              row == Message(message, chat_id)
          IN  IF OwnerExists(chat_id)
              THEN /\ crud_create_chat_message(chat_id, message)
                   /\ Set(r, [q EXCEPT !.pc = "done", !.status = 200,
                                       !.result = row, !.written = <<row>>])
              ELSE /\ Set(r, [q EXCEPT !.pc = "done", !.status = 500])
                   /\ UNCHANGED messages
    /\ UNCHANGED <<chats, resolved>>

(***************************************************************************)
(* db-api GET /chats/{chat_id} and GET /chats/username/{username}, called  *)
(* directly, with or without the X-Session-ID header.                      *)
(***************************************************************************)
db_get_chat(r) ==
    /\ Ready
    /\ Start(r)
    /\ \E chat_id \in ChatIds, header \in SessionIds \cup {NoHeader} :
          \E response \in db_get_chat_by_id(chat_id, header) :
              Set(r, [Idle EXCEPT !.op = "db_get_chat_by_id", !.pc = "done",
                                  !.chat_id = chat_id, !.session_id = header,
                                  !.status = response.status,
                                  !.result = response.body])
    /\ UNCHANGED <<chats, messages, resolved>>

db_get_chat_username(r) ==
    /\ Ready
    /\ Start(r)
    /\ \E username \in Usernames, header \in SessionIds \cup {NoHeader} :
          \E response \in db_get_chat_by_username(username, header) :
              Set(r, [Idle EXCEPT !.op = "db_get_chat_by_username", !.pc = "done",
                                  !.username = username, !.session_id = header,
                                  !.status = response.status,
                                  !.result = response.body])
    /\ UNCHANGED <<chats, messages, resolved>>

(***************************************************************************)
(* chat-ui GET /chats/{chat_id}: the rendered chat page.                   *)
(***************************************************************************)
prettify(chat) ==
    (settings.user_role :> chat.username)
        @@ (settings.assistant_role :> "JorisBot")
        @@ (settings.system_role :> settings.system_role)

\* get_chat_page without the filter on the role: every message is displayed.
Render_unfiltered(chat, msgs) ==
    [i \in 1..Len(msgs) |->
        [content |-> msgs[i].content, role |-> prettify(chat)[msgs[i].role]]]

RECURSIVE Render(_, _)
Render(chat, msgs) ==
    IF msgs = <<>> THEN <<>>
    ELSE LET msg == Head(msgs)
         IN  (IF msg.role # settings.system_role
              THEN <<[content |-> msg.content, role |-> prettify(chat)[msg.role]]>>
              ELSE <<>>) \o Render(chat, Tail(msgs))

ui_get_chat_page(r) ==
    /\ Ready
    /\ Start(r)
    /\ \E chat_id \in ChatIds, session_id \in SessionIds :
          \E response \in db_get_chat_by_id(chat_id, session_id) :
              LET q == [Idle EXCEPT !.op = "ui_get_chat_page", !.pc = "done",
                                    !.chat_id = chat_id, !.session_id = session_id,
                                    !.chat = response.body]
              IN  IF response.body = None
                  THEN \* chat["username"] of None raises: the request fails
                       Set(r, [q EXCEPT !.status = 500])
                  ELSE Set(r, [q EXCEPT !.status = 200,
                                  !.result = [messages |->
                                      Render(response.body, response.body.messages)]])
    /\ UNCHANGED <<chats, messages, resolved>>

(***************************************************************************)
(* chat-ui POST /generate/{chat_id}.                                       *)
(***************************************************************************)
\* Step 1: post the user message.  A failed post has no JSON body, so
\* .json() raises and the request fails.
ui_create_generation(r) ==
    /\ Ready
    /\ Start(r)
    /\ \E chat_id \in ChatIds, prompt \in Prompts, session_id \in SessionIds :
          LET q == [Idle EXCEPT !.op = "ui_create_generation",
                                !.chat_id = chat_id, !.prompt = prompt,
                                !.session_id = session_id]
              message == MessageCreate(settings.user_role, prompt, session_id)
          IN  IF OwnerExists(chat_id)
              THEN /\ crud_create_chat_message(chat_id, message)
                   /\ Set(r, [q EXCEPT !.pc = "get_chat",
                                 !.written = <<Message(message, chat_id)>>])
              ELSE /\ Set(r, [q EXCEPT !.pc = "done", !.status = 500])
                   /\ UNCHANGED messages
    /\ UNCHANGED <<chats, resolved>>

\* Steps 2 and 3: fetch the chat history under the request's session and send
\* chat["messages"] to the completion endpoint, which answers within the 30
\* seconds.  generation["choices"][0]["message"]["content"] is the reply.
generation_completion(r) ==
    /\ Ready
    /\ req[r].pc = "get_chat"
    /\ \E response \in db_get_chat_by_id(req[r].chat_id, req[r].session_id) :
          IF response.body = None
          THEN \* chat["messages"] of None raises: the request fails
               Set(r, Done(r, 500, None))
          ELSE \E generation \in Replies :
                  Set(r, [req[r] EXCEPT !.pc = "post_generation",
                                        !.chat = response.body,
                                        !.generation = generation])
    /\ UNCHANGED <<chats, messages, started, resolved>>

\* create_generation with a handler of the timeout that stores a message of the
\* assistant before it fails.
generation_timeout_saving(r) ==
    /\ Ready
    /\ req[r].pc = "get_chat"
    /\ \E response \in db_get_chat_by_id(req[r].chat_id, req[r].session_id) :
          /\ response.body # None
          /\ Len(messages) < MaxMessages
          /\ messages' \in AddMessage(Message(
                 MessageCreate(settings.assistant_role, "timed out",
                               req[r].session_id), req[r].chat_id))
          /\ Set(r, [Done(r, 503, None) EXCEPT !.chat = response.body])
    /\ UNCHANGED <<chats, started, resolved>>

\* Steps 2 and 3, httpx.TimeoutException: HTTPException(503), nothing more is
\* done for the request.
generation_timeout(r) ==
    /\ Ready
    /\ req[r].pc = "get_chat"
    /\ \E response \in db_get_chat_by_id(req[r].chat_id, req[r].session_id) :
          IF response.body = None
          THEN Set(r, Done(r, 500, None))
          ELSE Set(r, [Done(r, 503, None) EXCEPT !.chat = response.body])
    /\ UNCHANGED <<chats, messages, started, resolved>>

\* Step 4: post the assistant message, then redirect to the chat page.
generation_post(r) ==
    /\ Ready
    /\ req[r].pc = "post_generation"
    /\ LET message == MessageCreate(settings.assistant_role, req[r].generation,
                                    req[r].session_id)
       IN  /\ crud_create_chat_message(req[r].chat_id, message)
           /\ Set(r, [Done(r, 302, [location |-> req[r].chat_id]) EXCEPT
                        !.written = Append(@, Message(message,
                                                      req[r].chat_id))])
    /\ UNCHANGED <<chats, started, resolved>>

\* The response is delivered: the slot is free for the next request.
respond(r) ==
    /\ req[r].pc = "done"
    /\ Set(r, Idle)
    /\ UNCHANGED <<chats, messages, started, resolved>>

Step(r) ==
    \/ ui_create_chat(r)
    \/ db_create_chat(r)
    \/ create_chat_add(r)
    \/ create_chat_messages(r)
    \/ ui_get_by_username(r)
    \/ db_create_chat_message(r)
    \/ db_get_chat(r)
    \/ db_get_chat_username(r)
    \/ ui_get_chat_page(r)
    \/ ui_create_generation(r)
    \/ generation_completion(r)
    \/ generation_timeout(r)
    \/ generation_post(r)
    \/ respond(r)

Next == \E r \in Requests : Step(r)

Spec == Init /\ [][Next]_vars

\* The requests one after another: a request takes the second slot only while
\* another is under way, so the first slot alone runs them in sequence.
SeqNext == Step(1)

SeqSpec == Init /\ [][SeqNext]_vars

(***************************************************************************)
(* Properties.                                                             *)
(***************************************************************************)
ChatsOf(username, session_id) ==
    {c \in chats : c.username = username /\ c.session_id = session_id}

IsGet(q) == q.op \in {"db_get_chat_by_id", "db_get_chat_by_username"}

\* The chat rows a GET request names by its path: by identifier or by username.
Named(q) ==
    IF q.op = "db_get_chat_by_id"
    THEN {c \in chats : c.id = q.chat_id}
    ELSE {c \in chats : c.username = q.username}

\* C1: in every reachable state at most one chat row exists for each pair of
\* username and session_id, whatever the interleaving of the create requests.
C1_AtMostOneChatPerPair ==
    \A u \in Usernames, s \in SessionIds : Cardinality(ChatsOf(u, s)) <= 1

C3_FetchScopedToSession ==
    \A r \in Requests :
        (req[r].pc = "done" /\ IsGet(req[r]) /\ req[r].session_id # NoHeader) =>
            LET q == req[r]
                match == {c \in Named(q) : c.session_id = q.session_id}
            IN  /\ match = {} => q.result = None
                /\ match # {} => \E c \in match : q.result = ChatSchema(c)
                /\ \A c \in chats : c.session_id # q.session_id =>
                      /\ q.result # ChatSchema(c)
                      /\ q.result # None =>
                            \A i \in 1..Len(q.result.messages) :
                                q.result.messages[i].owner_id # c.id

\* A GET named a stored chat, by identifier, under a token that is not the
\* chat's session, and got the empty result.
C3_Witness ==
    \E r \in Requests :
        /\ req[r].pc = "done"
        /\ req[r].op = "db_get_chat_by_id"
        /\ req[r].session_id # NoHeader
        /\ \E c \in chats : /\ c.id = req[r].chat_id
                            /\ c.session_id # req[r].session_id
                            /\ ChatMessages(c.id) # <<>>
        /\ req[r].result = None

SessionOfStep(r) ==
    IF req[r].pc = "idle" THEN req'[r].session_id ELSE req[r].session_id

\* C5: chats of different sessions are independent: no step of a request under
\* one session changes the messages of a chat of another session, and no
\* response to a request under one session carries a chat of another session.
C5_SessionsIndependent ==
    [][\A r \in Requests : req'[r] # req[r] =>
          /\ \A c \in chats : c.session_id # SessionOfStep(r) =>
                MessagesOf(messages', c.id) = MessagesOf(messages, c.id)
          /\ (req'[r].pc = "done" /\ IsGet(req'[r]) /\ req'[r].result # None) =>
                req'[r].result.session_id = req'[r].session_id
          /\ (req'[r].pc = "done" /\ req'[r].op = "ui_get_chat_page"
                /\ req'[r].chat # None) =>
                req'[r].chat.session_id = req'[r].session_id
          /\ (req'[r].pc = "done" /\ req'[r].op = "ui_create_chat"
                /\ req'[r].status = 302) =>
                \E c \in chats' : /\ c.id = req'[r].result.location
                                  /\ c.session_id = req'[r].session_id]_vars

\* C6: the messages of a fetched chat are in insertion order: a new message of
\* a chat comes after all the messages the chat had before.
C6_MessagesInInsertionOrder ==
    [][\A c \in chats :
          LET old == MessagesOf(messages, c.id)
              new == MessagesOf(messages', c.id)
          IN  \/ new = old
              \/ /\ Len(new) = Len(old) + 1
                 /\ SubSeq(new, 1, Len(old)) = old]_vars

\* The table rows without the row at place p.
RemoveAt(rows, p) == SubSeq(rows, 1, p - 1) \o SubSeq(rows, p + 1, Len(rows))

\* The step adds to table messages the one row `row` and nothing else.
AddsOnly(row) ==
    \E p \in 1..Len(messages') :
        /\ messages'[p] = row
        /\ RemoveAt(messages', p) = messages

\* C7: a generate-reply request whose completion call times out has persisted
\* exactly the user message with its prompt, in its first step; the timeout
\* ends the request with status 503 without another change of the store, and
\* the request takes no further step: no retry, no assistant message.
C7_TimeoutPersistsOnlyUserMessage ==
    [][\A r \in Requests :
          LET q == req[r]
              q2 == req'[r]
          IN  /\ (q.pc = "idle" /\ q2.op = "ui_create_generation" /\ q2.pc # "done") =>
                    /\ q2.pc = "get_chat"
                    /\ AddsOnly(Message(MessageCreate(settings.user_role, q2.prompt,
                                                      q2.session_id), q2.chat_id))
              /\ (q.op = "ui_create_generation" /\ q.pc # "done" /\ q2.status = 503) =>
                    /\ q.pc = "get_chat"
                    /\ q2.pc = "done"
                    /\ messages' = messages
                    /\ chats' = chats
              /\ (q.pc = "done" /\ q.status = 503 /\ q2 # q) =>
                    /\ q2 = Idle
                    /\ messages' = messages
                    /\ chats' = chats]_vars

\* A generate-reply request has ended with 503, and its user message is in the
\* history of its chat.
C7_Witness ==
    \E r \in Requests :
        /\ req[r].op = "ui_create_generation"
        /\ req[r].pc = "done"
        /\ req[r].status = 503
        /\ \E i \in 1..Len(ChatMessages(req[r].chat_id)) :
              ChatMessages(req[r].chat_id)[i] =
                  Message(MessageCreate(settings.user_role, req[r].prompt,
                                        req[r].session_id), req[r].chat_id)
        /\ \A i \in 1..Len(ChatMessages(req[r].chat_id)) :
              ChatMessages(req[r].chat_id)[i].content \notin Replies

Count(rows, x) == Cardinality({i \in DOMAIN rows : rows[i] = x})

\* The two sequences hold the same rows, each as often.
SameRows(a, b) ==
    /\ Len(a) = Len(b)
    /\ \A i \in DOMAIN a : Count(a, a[i]) = Count(b, a[i])

\* The rows of the initial messages of chat-ui for a chat, in their order.
InitialRows(chat_id, session_id) ==
    <<Message(InitialMessages(session_id)[1], chat_id),
      Message(InitialMessages(session_id)[2], chat_id)>>

\* C8: with the requests run one after another, create-or-resume for a new
\* pair yields the history [system, assistant opening]; a generate-reply with
\* prompt p on that chat, nothing else touching the chat, sends the completion
\* endpoint [system, opening, user p] and leaves the history
\* [system, opening, user p, assistant reply].
C8_EndToEndHistory ==
    \A r \in Requests :
        LET q == req[r]
        IN  /\ (q.pc = "done" /\ q.op = "ui_create_chat" /\ q.response_status = 200) =>
                  ChatMessages(q.result.location) =
                      InitialRows(q.result.location, q.session_id)
            /\ (q.pc = "done" /\ q.op = "ui_create_generation" /\ q.status = 302) =>
                  LET sent == InitialRows(q.chat_id, q.session_id) \o
                                <<Message(MessageCreate(settings.user_role, q.prompt,
                                                        q.session_id), q.chat_id)>>
                      all == sent \o
                                <<Message(MessageCreate(settings.assistant_role,
                                                        q.generation, q.session_id),
                                          q.chat_id)>>
                  IN  SameRows(ChatMessages(q.chat_id), all) =>
                         /\ q.chat.messages = sent
                         /\ ChatMessages(q.chat_id) = all

\* C9: for every stored chat, the fetch by identifier and the fetch by username,
\* both under the chat's own session, return that chat with the same messages
\* in the same order.
C9_FetchByIdEqualsByUsername ==
    \A c \in chats :
        /\ db_get_chat_by_id(c.id, c.session_id) = {Response(200, ChatSchema(c))}
        /\ db_get_chat_by_username(c.username, c.session_id) =
              {Response(200, ChatSchema(c))}

\* C10: a create-chat request of the persistence API for a username and session
\* that already have a chat is rejected with status 400 in its first step,
\* which leaves the store as it is, and the rejected request changes nothing
\* later either: no chat row, none of its initial messages.
C10_DuplicateCreateRejected ==
    [][\A r \in Requests :
          LET q == req[r]
              q2 == req'[r]
          IN  /\ (q.pc = "idle" /\ q2.op \in {"ui_create_chat", "db_create_chat"}
                    /\ ChatsOf(q2.username, q2.session_id) # {}) =>
                    /\ IF q2.op = "db_create_chat"
                       THEN q2.pc = "done" /\ q2.status = 400
                       ELSE q2.pc = "get_by_username" /\ q2.response_status = 400
                    /\ q2.written = <<>>
                    /\ chats' = chats
                    /\ messages' = messages
              /\ ((q.status = 400 \/ q.response_status = 400) /\ q2 # q) =>
                    /\ chats' = chats
                    /\ messages' = messages]_vars

\* A create-chat request with initial messages was rejected with 400 for a pair
\* whose chat has messages.
C10_Witness ==
    \E r \in Requests :
        /\ req[r].op = "ui_create_chat"
        /\ req[r].response_status = 400
        /\ req[r].body # <<>>
        /\ \E c \in ChatsOf(req[r].username, req[r].session_id) :
              ChatMessages(c.id) # <<>>

\* The messages of a fetched chat that are not of the system role, in the
\* order of the fetch.
Displayed(msgs) == SelectSeq(msgs, LAMBDA msg : msg.role # settings.system_role)

\* The name the page shows for a role of a chat.
DisplayName(chat, role) ==
    IF role = settings.user_role THEN chat.username
    ELSE IF role = settings.assistant_role THEN "JorisBot"
    ELSE role

\* C11: the step of a chat-page request that renders the page shows exactly
\* the messages of the fetched chat that are not of the system role, in the
\* order the persistence API returned them, each with its content and the
\* display name of its role; no message of the system role is displayed; and
\* the step changes no table, so the system messages stay in the store.
C11_PageExcludesSystemMessages ==
    [][\A r \in Requests :
          LET q == req[r]
              q2 == req'[r]
          IN  (q.pc = "idle" /\ q2.op = "ui_get_chat_page" /\ q2.status = 200) =>
                 LET shown == Displayed(q2.chat.messages)
                     page == q2.result.messages
                 IN  /\ q2.chat \in {ChatSchema(c) : c \in chats}
                     /\ Len(page) = Len(shown)
                     /\ \A i \in 1..Len(shown) :
                           /\ shown[i].role # settings.system_role
                           /\ page[i] = [content |-> shown[i].content,
                                         role |-> DisplayName(q2.chat, shown[i].role)]
                     /\ chats' = chats
                     /\ messages' = messages
                     /\ MessagesOf(messages', q2.chat.id) = q2.chat.messages]_vars

\* A chat page was rendered for a chat whose fetched history has a system
\* message and two other messages: the page shows the two, and the system
\* message is still stored.
C11_Witness ==
    \E r \in Requests :
        /\ req[r].op = "ui_get_chat_page"
        /\ req[r].pc = "done"
        /\ req[r].status = 200
        /\ Len(req[r].result.messages) = 2
        /\ Len(req[r].chat.messages) = 3
        /\ \E i \in 1..3 : req[r].chat.messages[i].role = settings.system_role
        /\ \E i \in 1..Len(messages) :
              /\ messages[i].role = settings.system_role
              /\ messages[i].owner_id = req[r].chat.id

\* C12: in every reachable state the session_id of every stored message is the
\* session_id of the chat row that owns it, whatever bodies the create-chat
\* and create-message requests carried.
C12_MessageSessionIsChatSession ==
    \A i \in 1..Len(messages) :
        \A c \in chats :
            c.id = messages[i].owner_id => messages[i].session_id = c.session_id

\* C13: no step of either service deletes or changes a stored row: every chat
\* row of before the step is a chat row after it, with its identifier, username
\* and session_id; every message row of before the step is stored after it as
\* often as before, with its role, content, session_id and owner; and the
\* messages of a chat never become fewer.
C13_StoreIsAppendOnly ==
    [][/\ chats \subseteq chats'
       /\ \A i \in 1..Len(messages) :
             Count(messages', messages[i]) >= Count(messages, messages[i])
       /\ Len(messages') >= Len(messages)
       /\ \A c \in chats :
             Len(MessagesOf(messages', c.id)) >= Len(MessagesOf(messages, c.id))]_vars

\* Both services have written: a generate-reply request of chat-ui has stored
\* its two messages after the initial ones, and the chat has all four.
C13_Witness ==
    \E r \in Requests :
        /\ req[r].op = "ui_create_generation"
        /\ req[r].pc = "done"
        /\ req[r].status = 302
        /\ Len(req[r].written) = 2
        /\ Len(ChatMessages(req[r].chat_id)) >= 4
        /\ \E c \in chats : c.id = req[r].chat_id

====
